---- MODULE Spec2Model ----
(***************************************************************************)
(* A model of recallai-go: the client configuration (client.go), the       *)
(* request pipeline Client.request / Client.requestImpl, the error decoder *)
(* decodeClientError, and the BotService operation wrappers (bot.go).      *)
(*                                                                         *)
(* One operation call is two steps: Begin runs the wrapper and the         *)
(* pipeline up to the point where the request is handed to the transport   *)
(* (httpClient.Do); Complete takes the transport's outcome and runs the    *)
(* rest of the pipeline and of the wrapper up to its return.               *)
(*                                                                         *)
(* Four specifications share the state:                                    *)
(*   Spec      one caller at a time calls the operations of a constructed  *)
(*             client;                                                     *)
(*   SpecNew   NewClient itself, one option at a time;                     *)
(*   SpecOpen  Spec, and the caller's other means on a constructed client: *)
(*             its exported fields and the option functions;               *)
(*   SpecConc  several callers whose calls interleave.                     *)
(***************************************************************************)
EXTENDS Integers, Sequences, FiniteSets, TLC

VARIABLES client, calls, ctor

vars == <<client, calls, ctor>>

(***************************************************************************)
(* Bounds of the model.                                                    *)
(***************************************************************************)
\* the longest list of options handed to NewClient
MaxOpts == 2
\* the number of callers that use the one client
MaxCallers == 1

Callers == 1..MaxCallers

\* the callers of the specification of interleaved calls: one more
ConcCallers == 1..(MaxCallers + 1)

(***************************************************************************)
(* Values shared by all definitions.                                       *)
(***************************************************************************)
\* the nil error / nil pointer / absent value
Nil == [kind |-> "nil"]

\* strconv of a non-negative integer, as fmt.Sprintf("%d", n) prints it
Digit(d) ==
  CASE d = 0 -> "0" [] d = 1 -> "1" [] d = 2 -> "2" [] d = 3 -> "3"
    [] d = 4 -> "4" [] d = 5 -> "5" [] d = 6 -> "6" [] d = 7 -> "7"
    [] d = 8 -> "8" [] d = 9 -> "9"

RECURSIVE Itoa(_)
Itoa(n) == IF n < 10 THEN Digit(n) ELSE Itoa(n \div 10) \o Digit(n % 10)

(***************************************************************************)
(* Error values.  fmt.Errorf with %w gives an error that wraps its cause   *)
(* and whose message is the format with the cause's message substituted;   *)
(* fmt.Errorf without %w gives a plain error.                              *)
(***************************************************************************)
\* a variant of Error.Error() that reports the code in place of the detail
ApiErrorMessageCode(e) == Itoa(e.Code)

\* Error.Error(): the API error reports its Detail
ApiErrorMessage(e) == e.Detail

\* err.Error() of any error value of the model
ErrorMessage(e) == IF e.kind = "Error" THEN ApiErrorMessage(e) ELSE e.msg

\* fmt.Errorf(msg) with no %w verb
Errorf(msg) == [kind |-> "errorString", msg |-> msg, cause |-> Nil]

\* fmt.Errorf(prefix + "%w", err)
Wrapf(prefix, err) ==
  [kind |-> "wrapError", msg |-> prefix \o ErrorMessage(err), cause |-> err]

\* an error of a library below the client (encoding/json, io, net/http)
LibError(type, msg) == [kind |-> type, msg |-> msg, cause |-> Nil]

\* the chain of an error: the error, its cause, the cause's cause, ...
RECURSIVE ErrorChain(_)
ErrorChain(e) ==
  IF e = Nil THEN {}
  ELSE IF e.kind # "Error" /\ e.cause # Nil THEN {e} \cup ErrorChain(e.cause)
  ELSE {e}

\* errors.As(err, *Error): the chain holds an API error
IsApiError(e) == \E x \in ErrorChain(e) : x.kind = "Error"

(***************************************************************************)
(* JSON.  A byte string is modelled by its JSON syntax: the bytes of an    *)
(* object (its keys and their values), of an array, of null, no bytes at   *)
(* all, bytes that are not JSON, or a stream whose read fails.  Decoding   *)
(* follows encoding/json: keys the target does not declare are ignored,    *)
(* keys it declares and the bytes omit keep their zero value, null leaves  *)
(* the target untouched, a value of the wrong JSON type is an              *)
(* UnmarshalTypeError, bytes that are not JSON are a SyntaxError.          *)
(***************************************************************************)
Num(n) == [t |-> "number", v |-> n]
Str(s) == [t |-> "string", v |-> s]
Arr(n) == [t |-> "array", v |-> n]
Bool(b) == [t |-> "bool", v |-> b]
JNull == [t |-> "null", v |-> 0]

NoFields == [k \in {} |-> JNull]

JObject(f) == [form |-> "object", fields |-> f]
JArray(n) == [form |-> "array", fields |-> NoFields, n |-> n]
JNullBytes == [form |-> "null", fields |-> NoFields]
NoBytes == [form |-> "empty", fields |-> NoFields]
Garbage == [form |-> "garbage", fields |-> NoFields]
\* a body stream whose Read returns an error
BrokenStream == [form |-> "ioerror", fields |-> NoFields]

\* the JSON type of each declared key of the struct types that are decoded
StructKeys(type) ==
  CASE type = "Error" -> ("code" :> "number" @@ "detail" :> "string")
    [] type = "ListBotResponse" ->
         ("count" :> "number" @@ "next" :> "string" @@ "previous" :> "string"
            @@ "results" :> "array")
    [] type = "Bot" -> ("id" :> "string" @@ "bot_name" :> "string")
    [] type = "ListMessagesResponse" ->
         ("next" :> "string" @@ "previous" :> "string" @@ "results" :> "array")
    [] type = "LogEntry" ->
         ("level" :> "string" @@ "message" :> "string" @@ "created_at" :> "string")
    [] type = "AnalyzeBotMediaResponse" -> ("job_id" :> "string")

\* the decode targets that are slices
IsSliceType(type) == type \in {"[]SpeakerTimelineEntry", "[]TranscriptEntry"}

\* the zero value of a Go field of the given JSON type
ZeroOf(jt) ==
  CASE jt = "number" -> Num(0)
    [] jt = "string" -> Str("")
    [] jt = "array" -> Arr(0)
    [] jt = "bool" -> Bool(FALSE)
    [] jt = "object" -> [t |-> "object", v |-> 0]

ZeroStruct(type) == [k \in DOMAIN StructKeys(type) |-> ZeroOf(StructKeys(type)[k])]

GoTypeName(jt) ==
  CASE jt = "number" -> "int" [] jt = "string" -> "string"
    [] jt = "array" -> "slice" [] jt = "bool" -> "bool"

SyntaxError(msg) == LibError("SyntaxError", msg)

UnmarshalTypeError(value, where) ==
  LibError("UnmarshalTypeError",
           "json: cannot unmarshal " \o value \o " into Go " \o where)

\* the declared keys of the target whose value in the bytes has another type
MismatchedKeys(data, type) ==
  {k \in DOMAIN data.fields \cap DOMAIN StructKeys(type) :
     data.fields[k].t \notin {"null", StructKeys(type)[k]}}

\* the struct that decoding an object leaves in the target
DecodedStruct(data, type) ==
  [k \in DOMAIN StructKeys(type) |->
     IF k \in DOMAIN data.fields /\ data.fields[k].t = StructKeys(type)[k]
     THEN data.fields[k] ELSE ZeroOf(StructKeys(type)[k])]

\* json.Unmarshal(data, &v) for v of the given type: the error and v afterwards
Unmarshal(data, type) ==
  CASE data.form = "empty" ->
         [err |-> SyntaxError("unexpected end of JSON input"), val |-> Nil]
    [] data.form = "garbage" ->
         [err |-> SyntaxError("invalid character '<' looking for beginning of value"),
          val |-> Nil]
    [] data.form = "null" ->
         [err |-> Nil,
          val |-> IF IsSliceType(type) THEN Arr(0) ELSE ZeroStruct(type)]
    [] data.form = "array" ->
         IF IsSliceType(type)
         THEN [err |-> Nil, val |-> Arr(data.n)]
         ELSE [err |-> UnmarshalTypeError("array", "value of type recallaigo." \o type),
               val |-> Nil]
    [] data.form = "object" ->
         IF IsSliceType(type)
         THEN [err |-> UnmarshalTypeError("object", "value of type " \o type),
               val |-> Nil]
         ELSE IF MismatchedKeys(data, type) # {}
         THEN LET k == CHOOSE x \in MismatchedKeys(data, type) : TRUE
              IN [err |-> UnmarshalTypeError(data.fields[k].t,
                            "struct field " \o type \o "." \o k \o " of type "
                              \o GoTypeName(StructKeys(type)[k])),
                  val |-> Nil]
         ELSE [err |-> Nil, val |-> DecodedStruct(data, type)]

\* json.NewDecoder(body).Decode(&v): reads the stream, then decodes as Unmarshal
Decode(data, type) ==
  CASE data.form = "ioerror" ->
         [err |-> LibError("ioError", "unexpected EOF"), val |-> Nil]
    [] data.form = "empty" -> [err |-> LibError("ioError", "EOF"), val |-> Nil]
    [] OTHER -> Unmarshal(data, type)

\* io.ReadAll(body): the bytes, or the error of the read that failed
ReadAll(data) ==
  IF data.form = "ioerror"
  THEN [err |-> LibError("ioError", "unexpected EOF"), data |-> NoBytes]
  ELSE [err |-> Nil, data |-> data]

(***************************************************************************)
(* The error decoder (client.go) and the API error type.                   *)
(***************************************************************************)
\* type Error struct { Code int; Detail string }
ApiError(code, detail) == [kind |-> "Error", Code |-> code, Detail |-> detail]

\* a variant of decodeClientError that swallows the failure of Unmarshal
decodeClientErrorSwallow(data) ==
  LET r == Unmarshal(data, "Error")
  IN IF r.err # Nil THEN Nil ELSE ApiError(r.val["code"].v, r.val["detail"].v)

\* decodeClientError(data)
decodeClientError(data) ==
  LET r == Unmarshal(data, "Error")
  IN IF r.err # Nil
     THEN Wrapf("failed to decode error response: ", r.err)
     ELSE ApiError(r.val["code"].v, r.val["detail"].v)

(***************************************************************************)
(* URLs.  A URL value is its components; URLString formats it, and parsing *)
(* a string yields the URL whose format is that string, or fails.          *)
(***************************************************************************)
URL(scheme, host, path, rawQuery) ==
  [scheme |-> scheme, host |-> host, path |-> path, rawQuery |-> rawQuery]

NoURL == [scheme |-> "", host |-> "", path |-> "", rawQuery |-> <<>>]

\* url.QueryEscape of the query values of the model
QueryEscape(s) ==
  IF s = "https://test.com" THEN "https%3A%2F%2Ftest.com" ELSE s

\* url.Values.Encode() of one key=value pair
EncodePair(p) == QueryEscape(p[1]) \o "=" \o QueryEscape(p[2])

RECURSIVE JoinPairs(_)
JoinPairs(ps) ==
  IF ps = <<>> THEN ""
  ELSE IF Len(ps) = 1 THEN EncodePair(ps[1])
  ELSE EncodePair(ps[1]) \o "&" \o JoinPairs(Tail(ps))

\* URL.String()
URLString(u) ==
  u.scheme \o "://" \o u.host \o u.path
    \o (IF u.rawQuery = <<>> THEN "" ELSE "?" \o JoinPairs(u.rawQuery))

(***************************************************************************)
(* Client configuration (client.go).                                       *)
(***************************************************************************)
apiVersion == "v1"

UsEast == "us-east-1"
UsWest == "us-west-2"
Eu == "eu-central-1"
Japan == "ap-northeast-1"

Regions == {UsEast, UsWest, Eu, Japan}

\* a variant of BaseURL that formats the default region for every region
BaseURLDefaultRegion(r) == "https://" \o UsEast \o ".recall.ai"

\* Region.BaseURL()
BaseURL(r) == "https://" \o r \o ".recall.ai"

\* Region is a string type: values outside the four constants, one that
\* gives a host url.Parse accepts and one with a space, which it rejects
\* (invalid character " " in host name)
OtherRegions == {"staging", "a b"}

\* the URLs url.Parse can return for the base addresses of the model
BaseURLCandidates ==
  {URL("https", r \o ".recall.ai", "", <<>>) : r \in Regions \cup {"staging"}}

\* url.Parse(s) for a base address: the URL and the error
urlParse(s) ==
  IF \E u \in BaseURLCandidates : URLString(u) = s
  THEN [err |-> Nil, url |-> CHOOSE u \in BaseURLCandidates : URLString(u) = s]
  ELSE [err |-> LibError("urlError", "parse: invalid URL"), url |-> NoURL]

\* Client.setBaseURL(region): the client afterwards, and the error
setBaseURL(c, region) ==
  LET r == urlParse(BaseURL(region))
  IN IF r.err # Nil
     THEN [err |-> Wrapf("failed to parse base URL: ", r.err), client |-> c]
     ELSE [err |-> Nil, client |-> [c EXCEPT !.baseUrl = r.url]]

\* WithHTTPClient(client), applied to c; the transports of the model are
\* "DefaultClient" (http.DefaultClient), "custom" (a caller's *http.Client)
\* and "nil" (the nil *http.Client)
WithHTTPClient(h, c) == [c EXCEPT !.httpClient = h]

\* a variant of WithRegion that sets the field and leaves the base URL
WithRegionFieldOnly(region, c) == [c EXCEPT !.Region = region]

\* WithRegion(region), applied to c; a failed setBaseURL panics
WithRegion(region, c) ==
  LET r == setBaseURL([c EXCEPT !.Region = region], region)
  IN IF r.err # Nil THEN [r.client EXCEPT !.panicked = TRUE] ELSE r.client

Options ==
  [opt : {"WithHTTPClient"}, arg : {"custom", "nil"}]
    \cup [opt : {"WithRegion"}, arg : Regions]

ApplyOption(o, c) ==
  IF o.opt = "WithHTTPClient" THEN WithHTTPClient(o.arg, c) ELSE WithRegion(o.arg, c)

RECURSIVE ApplyOptions(_, _)
ApplyOptions(opts, c) ==
  IF opts = <<>> \/ c.panicked THEN c
  ELSE ApplyOptions(Tail(opts), ApplyOption(Head(opts), c))

\* a variant of NewClient that leaves the Bot service without its client
NewClientDefaultsUnbound(token) ==
  LET c0 == [httpClient |-> "DefaultClient", Token |-> token,
             apiVersion |-> apiVersion, Region |-> UsEast,
             Bot |-> [client |-> "nil"],
             baseUrl |-> NoURL, panicked |-> FALSE]
      r == setBaseURL(c0, c0.Region)
  IN IF r.err # Nil THEN [c0 EXCEPT !.panicked = TRUE] ELSE r.client

\* NewClient, lines 55..66: the defaults, the Bot service bound to the
\* client under construction ("self" is the pointer to this client), and
\* the base URL of the default region; a failed setBaseURL panics
NewClientDefaults(token) ==
  LET c0 == [httpClient |-> "DefaultClient", Token |-> token,
             apiVersion |-> apiVersion, Region |-> UsEast,
             Bot |-> [client |-> "self"],
             baseUrl |-> NoURL, panicked |-> FALSE]
      r == setBaseURL(c0, c0.Region)
  IN IF r.err # Nil THEN [c0 EXCEPT !.panicked = TRUE] ELSE r.client

\* NewClient(token, opts...)
NewClient(token, opts) == ApplyOptions(opts, NewClientDefaults(token))

\* the credentials of the model
Tokens == {"some_token", "other_token"}

OptionLists == UNION {[1..n -> Options] : n \in 0..MaxOpts}

(***************************************************************************)
(* The operations of BotService (bot.go).  An operation is described by    *)
(* what its wrapper hands to the pipeline and what it does with the        *)
(* response: the method, the path (with or without the bot identifier),    *)
(* the type of the request body, the query parameters it builds, the       *)
(* status it insists on, the type it decodes, the context it adds to an    *)
(* error, and the API version it names.                                    *)
(***************************************************************************)
StatusOK == 200
StatusNoContent == 204

\* the version constants the wrappers pass to Client.request
apiVersionV1 == "v1"
apiVersionV2Beta == "v2beta"

Op(name, method, usesID, suffix, reqType, query, check, decode, failed, version) ==
  [name |-> name, method |-> method, usesID |-> usesID, suffix |-> suffix,
   reqType |-> reqType, query |-> query, check |-> check, decode |-> decode,
   failed |-> failed, version |-> version]

ListBots ==
  Op("ListBots", "GET", FALSE, "", "none", "ListBotsParams", "none",
     "ListBotResponse", "failed to list bots: ", apiVersionV1)
CreateBot ==
  Op("CreateBot", "POST", FALSE, "", "CreateBotRequest", "none", "none",
     "Bot", "failed to create bot: ", apiVersionV1)
ListChatMessages ==
  Op("ListChatMessages", "GET", TRUE, "/chat-messages", "none",
     "ListChatMessagesParams", "none", "ListMessagesResponse",
     "failed to list chat messages: ", apiVersionV1)
RetrieveBot ==
  Op("RetrieveBot", "GET", TRUE, "", "none", "none", "none", "Bot",
     "failed to retrieve bot: ", apiVersionV1)
UpdateScheduledBot ==
  Op("UpdateScheduledBot", "PATCH", TRUE, "", "Bot", "none", "none", "Bot",
     "failed to update scheduled bot: ", apiVersionV1)
DeleteScheduledBot ==
  Op("DeleteScheduledBot", "DELETE", TRUE, "", "none", "none", "StatusNoContent",
     "none", "failed to delete scheduled bot: ", apiVersionV1)
DeleteBotMedia ==
  Op("DeleteBotMedia", "POST", TRUE, "/delete_media", "none", "none",
     "StatusNoContent", "none", "failed to delete bot media: ", apiVersionV1)
GetBotLogs ==
  Op("GetBotLogs", "GET", TRUE, "/logs", "none", "none", "StatusOK", "LogEntry",
     "failed to get bot logs: ", apiVersionV1)
OutputAudio ==
  Op("OutputAudio", "POST", TRUE, "/output_audio", "OutputAudioRequest", "none",
     "StatusOK", "Bot", "failed to output audio: ", apiVersionV1)
StopOutputAudio ==
  Op("StopOutputAudio", "DELETE", TRUE, "/output_audio", "none", "none",
     "StatusOK", "none", "failed to stop output audio: ", apiVersionV1)
OutputMedia ==
  Op("OutputMedia", "POST", TRUE, "/output_media", "OutputMedia", "none",
     "StatusOK", "Bot", "failed to output media: ", apiVersionV1)
StopOutputMedia ==
  Op("StopOutputMedia", "DELETE", TRUE, "/output_media", "none", "none",
     "StatusOK", "none", "failed to stop output media: ", apiVersionV1)
StartScreenshare ==
  Op("StartScreenshare", "POST", TRUE, "/output_screenshare", "OutputVideoRequest",
     "none", "StatusOK", "Bot", "failed to start screenshare: ", apiVersionV1)
StopScreenshare ==
  Op("StopScreenshare", "DELETE", TRUE, "/output_screenshare", "none", "none",
     "StatusOK", "none", "failed to stop screenshare: ", apiVersionV1)
OutputVideo ==
  Op("OutputVideo", "POST", TRUE, "/output_video", "OutputVideoRequest", "none",
     "StatusOK", "Bot", "failed to output video: ", apiVersionV1)
StopOutputVideo ==
  Op("StopOutputVideo", "DELETE", TRUE, "/output_video", "none", "none",
     "StatusOK", "none", "failed to stop output video: ", apiVersionV1)
PauseRecording ==
  Op("PauseRecording", "POST", TRUE, "/pause_recording", "none", "none",
     "StatusOK", "Bot", "failed to pause recording: ", apiVersionV1)
RequestRecordingPermission ==
  Op("RequestRecordingPermission", "POST", TRUE, "/request_recording_permission",
     "none", "none", "StatusOK", "Bot",
     "failed to request recording permission: ", apiVersionV1)
ResumeRecording ==
  Op("ResumeRecording", "POST", TRUE, "/resume_recording", "none", "none",
     "StatusOK", "Bot", "failed to resume recording: ", apiVersionV1)
SendChatMessage ==
  Op("SendChatMessage", "POST", TRUE, "/send_chat_message",
     "SendChatMessageRequest", "none", "StatusOK", "Bot",
     "failed to send chat message: ", apiVersionV1)
GetSpeakerTimeline ==
  Op("GetSpeakerTimeline", "GET", TRUE, "/speaker_timeline", "none",
     "GetSpeakerTimelineParams", "StatusOK", "[]SpeakerTimelineEntry",
     "failed to get speaker timeline: ", apiVersionV1)
StartRecording ==
  Op("StartRecording", "POST", TRUE, "/start_recording", "StartRecordingRequest",
     "none", "StatusOK", "Bot", "failed to start recording: ", apiVersionV1)
StopRecording ==
  Op("StopRecording", "POST", TRUE, "/stop_recording", "none", "none",
     "StatusOK", "Bot", "failed to stop recording: ", apiVersionV1)
GetBotTranscript ==
  Op("GetBotTranscript", "GET", TRUE, "/transcript", "none",
     "GetBotTranscriptParams", "StatusOK", "[]TranscriptEntry",
     "failed to get bot transcript: ", apiVersionV1)
\* a variant of AnalyzeBotMedia that passes apiVersionV1
AnalyzeBotMediaV1 ==
  Op("AnalyzeBotMedia", "POST", TRUE, "/analyze", "AnalyzeBotMediaRequest",
     "none", "none", "AnalyzeBotMediaResponse",
     "failed to analyze bot media: ", apiVersionV1)

AnalyzeBotMedia ==
  Op("AnalyzeBotMedia", "POST", TRUE, "/analyze", "AnalyzeBotMediaRequest",
     "none", "none", "AnalyzeBotMediaResponse",
     "failed to analyze bot media: ", apiVersionV2Beta)

\* the interface BotService: every operation
BotService ==
  {ListBots, CreateBot, ListChatMessages, RetrieveBot, UpdateScheduledBot,
   DeleteScheduledBot, DeleteBotMedia, GetBotLogs, OutputAudio, StopOutputAudio,
   OutputMedia, StopOutputMedia, StartScreenshare, StopScreenshare, OutputVideo,
   StopOutputVideo, PauseRecording, RequestRecordingPermission, ResumeRecording,
   SendChatMessage, GetSpeakerTimeline, StartRecording, StopRecording,
   GetBotTranscript, AnalyzeBotMedia}

OpNamed(name) == CHOOSE op \in BotService : op.name = name

\* the status a wrapper insists on, as a number
CheckedStatus(op) == IF op.check = "StatusOK" THEN StatusOK ELSE StatusNoContent

\* fmt.Sprintf("bot/%s<suffix>", botID), kept as the pieces it joins
PathOf(op, botID) == IF op.usesID THEN <<"bot/", botID, op.suffix>> ELSE <<"bot">>

(***************************************************************************)
(* The arguments of the operations: contexts, bot identifiers, typed       *)
(* request bodies and typed parameters.                                    *)
(***************************************************************************)
\* a context.Context, or the nil interface
Contexts == {"ctx", "nil"}

\* bot identifiers: the empty string, a plain identifier, and one that is
\* not a valid URL escape
BotIDs == {"", "bot-1", "%zz"}

\* text url.Parse rejects inside a path ("invalid URL escape")
InvalidEscapes == {"%zz"}

\* bot identifiers made of dot segments: a caller's string is not checked
HostileIDs == {"../..", "../../.."}

\* the path segments of a bot identifier, split at its slashes
IDSegments(id) ==
  CASE id = "../.." -> <<"..", "..">>
    [] id = "../../.." -> <<"..", "..", "..">>
    [] OTHER -> <<id>>

\* a non-nil pointer to a struct of the given type, and the nil pointer
Ptr(type, fields) == [kind |-> "ptr", type |-> type, fields |-> fields]
NilPtr(type) == [kind |-> "nilptr", type |-> type, fields |-> NoFields]

\* the JSON keys of the request types and their JSON types
RequestKeys(type) ==
  CASE type = "CreateBotRequest" ->
         ("meeting_url" :> "string" @@ "bot_name" :> "string" @@ "join_at" :> "string")
    [] type = "Bot" ->
         ("id" :> "string" @@ "bot_name" :> "string" @@ "join_at" :> "string")
    [] type \in {"OutputAudioRequest", "OutputVideoRequest"} ->
         ("kind" :> "string" @@ "b64_data" :> "string")
    [] type = "OutputMedia" -> ("camera" :> "object" @@ "screenshare" :> "object")
    [] type = "SendChatMessageRequest" ->
         ("to" :> "string" @@ "message" :> "string" @@ "pin" :> "bool")
    [] type = "StartRecordingRequest" ->
         ("recording_mode" :> "string" @@ "recording_mode_options" :> "object")
    [] type = "AnalyzeBotMediaRequest" ->
         ("assemblyai_async_transcription" :> "object")

\* the keys tagged omitempty
OmitEmpty(type) ==
  CASE type \in {"CreateBotRequest", "Bot"} -> {"join_at"}
    [] type = "SendChatMessageRequest" -> {"to", "pin"}
    [] OTHER -> {}

ZeroRequest(type) ==
  Ptr(type, [k \in DOMAIN RequestKeys(type) |-> ZeroOf(RequestKeys(type)[k])])

\* a CreateBotRequest with the given MeetingURL and BotName
CreateBotRequest(meetingURL, botName) ==
  Ptr("CreateBotRequest",
      ("meeting_url" :> Str(meetingURL) @@ "bot_name" :> Str(botName)
         @@ "join_at" :> Str("")))

\* the request bodies of the model, by type
RequestsOf(type) ==
  CASE type = "none" -> {Nil}
    [] type = "CreateBotRequest" ->
         {NilPtr(type)} \cup
         {CreateBotRequest(u, n) : u \in {"", "https://test.com"}, n \in {"", "Test Bot"}}
    [] type = "SendChatMessageRequest" ->
         {NilPtr(type), ZeroRequest(type),
          Ptr(type, ("to" :> Str("everyone") @@ "message" :> Str("hello")
                       @@ "pin" :> Bool(FALSE)))}
    [] OTHER -> {NilPtr(type), ZeroRequest(type)}

\* json.Marshal(v) of a struct: the keys in declaration order, less the
\* omitempty keys that hold their zero value
Marshal(v) ==
  IF v.type = "chan"
  THEN [err |-> LibError("UnsupportedTypeError", "json: unsupported type: chan int"),
        data |-> Nil]
  ELSE [err |-> Nil,
        data |-> JObject([k \in {x \in DOMAIN v.fields :
                                   ~(x \in OmitEmpty(v.type)
                                     /\ v.fields[x] = ZeroOf(RequestKeys(v.type)[x]))}
                          |-> v.fields[k]])]

\* *ListBotsParams values, and nil
ListBotsParamsSet ==
  {Nil} \cup
  [kind : {"ptr"}, JoinAtAfter : {""}, JoinAtBefore : {"", "2024-01-01"},
   MeetingURL : {"", "https://test.com"}, Page : {0, 2},
   Platform : {<<>>, <<"zoom">>},
   Status : {<<>>, <<"ready">>, <<"ready", "done">>}]

\* the variadic params of the model, by type: none given, or one
ParamsOf(query) ==
  CASE query = "none" -> {Nil}
    [] query = "ListBotsParams" -> ListBotsParamsSet
    [] query = "ListChatMessagesParams" ->
         {<<>>} \cup {<<p>> : p \in [Cursor : {"", "c1"}, Ordering : {"", "created_at"}]}
    [] query = "GetSpeakerTimelineParams" ->
         {<<>>} \cup {<<p>> : p \in [ExcludeNullSpeaker : BOOLEAN]}
    [] query = "GetBotTranscriptParams" ->
         {<<>>} \cup {<<p>> : p \in [EnhancedDiarization : BOOLEAN]}

ArgsOf(op) ==
  [ctx : Contexts,
   botID : IF op.usesID THEN BotIDs ELSE {""},
   request : RequestsOf(op.reqType),
   params : ParamsOf(op.query)]

(***************************************************************************)
(* Query parameters: a map from a key to its list of values; nil is the    *)
(* map of no keys.                                                         *)
(***************************************************************************)
NoQuery == [k \in {} |-> <<>>]

\* a variant of the closure that stores the key whatever the value is
addQueryParamAlways(key, value) == key :> <<value>>

\* the closure addQueryParam of buildQueryParams
addQueryParam(key, value) == IF value # "" THEN key :> <<value>> ELSE NoQuery

RECURSIVE JoinComma(_)
JoinComma(items) ==
  IF Len(items) = 1 THEN items[1] ELSE items[1] \o "," \o JoinComma(Tail(items))

\* a variant that joins the items with commas into one value
convertToStringSliceJoined(items) ==
  IF Len(items) = 0 THEN <<>> ELSE <<JoinComma(items)>>

\* convertToStringSlice(items): item.String() of each item, in order
convertToStringSlice(items) == [i \in 1..Len(items) |-> items[i]]

\* buildQueryParams(params)
buildQueryParams(params) ==
  IF params = Nil THEN NoQuery
  ELSE addQueryParam("join_at_after", params.JoinAtAfter)
         @@ addQueryParam("join_at_before", params.JoinAtBefore)
         @@ addQueryParam("meeting_url", params.MeetingURL)
         @@ (IF params.Page # 0 THEN "page" :> <<Itoa(params.Page)>> ELSE NoQuery)
         @@ (IF Len(params.Platform) > 0
             THEN "platform" :> convertToStringSlice(params.Platform) ELSE NoQuery)
         @@ (IF Len(params.Status) > 0
             THEN "status" :> convertToStringSlice(params.Status) ELSE NoQuery)

\* the query parameters each wrapper builds from its params
QueryOf(op, params) ==
  CASE op.query = "none" -> NoQuery
    [] op.query = "ListBotsParams" -> buildQueryParams(params)
    [] op.query = "ListChatMessagesParams" ->
         IF Len(params) > 0
         THEN (IF params[1].Cursor # "" THEN "cursor" :> <<params[1].Cursor>>
               ELSE NoQuery)
                @@ (IF params[1].Ordering # "" THEN "ordering" :> <<params[1].Ordering>>
                    ELSE NoQuery)
         ELSE NoQuery
    [] op.query = "GetSpeakerTimelineParams" ->
         IF Len(params) > 0 /\ params[1].ExcludeNullSpeaker
         THEN "exclude_null_speaker" :> <<"true">> ELSE NoQuery
    [] op.query = "GetBotTranscriptParams" ->
         IF Len(params) > 0 /\ params[1].EnhancedDiarization
         THEN "enhanced_diarization" :> <<"true">> ELSE NoQuery

\* the keys of the model in the order url.Values.Encode sorts them
SortedKeys ==
  <<"cursor", "enhanced_diarization", "exclude_null_speaker", "join_at_after",
    "join_at_before", "meeting_url", "ordering", "page", "platform", "status">>

\* url.Values.Encode(): the key=value pairs, sorted by key, the values of a
\* key in the order they were added
RECURSIVE EncodeFrom(_, _)
EncodeFrom(q, i) ==
  IF i > Len(SortedKeys) THEN <<>>
  ELSE LET k == SortedKeys[i]
       IN (IF k \in DOMAIN q THEN [j \in 1..Len(q[k]) |-> <<k, q[k][j]>>] ELSE <<>>)
            \o EncodeFrom(q, i + 1)

Encode(q) == EncodeFrom(q, 1)

\* the sequences that hold each key of keys once
RECURSIVE Orders(_)
Orders(keys) ==
  IF keys = {} THEN {<<>>}
  ELSE UNION {{<<k>> \o o : o \in Orders(keys \ {k})} : k \in keys}

\* the orders in which a range loop may visit the keys of the map m
RangeOrders(m) == Orders(DOMAIN m)

\* q.Add(k, value) for each value of values, in order
AddValues(q, k, values) ==
  [x \in DOMAIN q \cup {k} |->
     IF x = k THEN (IF k \in DOMAIN q THEN q[k] ELSE <<>>) \o values ELSE q[x]]

\* the two loops of requestImpl over queryParams, the keys visited in order
RECURSIVE AddAll(_, _, _)
AddAll(q, queryParams, order) ==
  IF order = <<>> THEN q
  ELSE AddAll(AddValues(q, Head(order), queryParams[Head(order)]),
              queryParams, Tail(order))

\* a variant that writes the pairs in the order the range loop visits them
RECURSIVE encodeQueryInRangeOrder(_, _)
encodeQueryInRangeOrder(queryParams, order) ==
  IF order = <<>> THEN <<>>
  ELSE [j \in 1..Len(queryParams[Head(order)]) |->
          <<Head(order), queryParams[Head(order)][j]>>]
         \o encodeQueryInRangeOrder(queryParams, Tail(order))

\* requestImpl, lines 125..131: q := u.Query() (empty), the loops, q.Encode()
encodeQuery(queryParams, order) == Encode(AddAll(NoQuery, queryParams, order))

(***************************************************************************)
(* The request pipeline (client.go): Client.request and                    *)
(* Client.requestImpl.  RequestSteps is requestImpl up to the call of      *)
(* httpClient.Do; ResponseSteps is requestImpl from the return of Do.      *)
(***************************************************************************)
RECURSIVE Join(_)
Join(ps) == IF ps = <<>> THEN "" ELSE Head(ps) \o Join(Tail(ps))

NoHeader == [k \in {} |-> <<>>]

\* http.Header.Set(key, value): the one value of the key
HeaderSet(h, key, value) == (key :> <<value>>) @@ h

NoRequest == [method |-> "", url |-> NoURL, header |-> NoHeader, body |-> Nil]

\* the API version a call addresses: the one its wrapper hands to Client.request
VersionOf(c, version) == version

\* the segments that are left of segs after acc once every ".." has removed
\* the segment before it (URL.ResolveReference, RFC 3986 5.2.4)
RECURSIVE RemoveDots(_, _)
RemoveDots(segs, acc) ==
  IF segs = <<>> THEN acc
  ELSE IF Head(segs) = ".."
  THEN RemoveDots(Tail(segs),
                  IF acc = <<>> THEN <<>> ELSE SubSeq(acc, 1, Len(acc) - 1))
  ELSE RemoveDots(Tail(segs), Append(acc, Head(segs)))

\* c.baseUrl.Parse(fmt.Sprintf("api/%s/%s", version, urlStr)): the reference
\* is parsed and resolved against the base URL, which removes dot segments
\* (a path that ends in ".." keeps a trailing slash)
requestURL(c, version, urlStr) ==
  LET ref == <<"api/", VersionOf(c, version), "/">> \o urlStr
      bad == {i \in 1..Len(ref) : ref[i] \in InvalidEscapes}
      dotted == Len(urlStr) = 3 /\ urlStr[2] \in HostileIDs
      segs == RemoveDots(<<"api", VersionOf(c, version), "bot">>
                           \o IDSegments(urlStr[2]), <<>>)
      resolved == Join([k \in 1..Len(segs) |-> "/" \o segs[k]])
                    \o (IF urlStr[3] = "" THEN "/" ELSE urlStr[3])
  IN IF bad # {}
     THEN [err |-> LibError("urlError",
                     "parse \"" \o Join(ref) \o "\": invalid URL escape \""
                       \o ref[CHOOSE i \in bad : TRUE] \o "\""),
           url |-> NoURL]
     ELSE IF dotted
     THEN [err |-> Nil,
           url |-> URL(c.baseUrl.scheme, c.baseUrl.host, resolved, <<>>)]
     ELSE [err |-> Nil,
           url |-> URL(c.baseUrl.scheme, c.baseUrl.host, "/" \o Join(ref), <<>>)]

\* a variant of the test that takes a pointer to a zero struct for no body
BodyIsPresentNonZero(requestBody) ==
  CASE requestBody.kind = "nil" -> [panic |-> FALSE, present |-> FALSE]
    [] requestBody.kind = "nilptr" -> [panic |-> FALSE, present |-> FALSE]
    [] requestBody.kind = "ptr" ->
         [panic |-> FALSE, present |-> requestBody # ZeroRequest(requestBody.type)]
    [] OTHER -> [panic |-> TRUE, present |-> FALSE]

\* the test of requestImpl on its body: nil interface, nil pointer, non-nil
\* pointer; reflect.Value.IsNil panics on a value that is no reference
BodyIsPresent(requestBody) ==
  CASE requestBody.kind = "nil" -> [panic |-> FALSE, present |-> FALSE]
    [] requestBody.kind = "nilptr" -> [panic |-> FALSE, present |-> FALSE]
    [] requestBody.kind = "ptr" -> [panic |-> FALSE, present |-> TRUE]
    [] OTHER -> [panic |-> TRUE, present |-> FALSE]

\* a variant of the headers that puts the bare token in Authorization
requestHeadersBare(c) ==
  HeaderSet(HeaderSet(NoHeader, "Content-Type", "application/json"),
            "Authorization", c.Token)

\* the headers requestImpl sets on every request
requestHeaders(c) ==
  HeaderSet(HeaderSet(NoHeader, "Content-Type", "application/json"),
            "Authorization", "Token " \o c.Token)

\* a variant of requestImpl that creates the request before it builds the
\* URL and the body
RequestStepsCreateFirst(c, ctx, method, urlStr, queryParams, requestBody, version, order) ==
  LET u == requestURL(c, version, urlStr)
      b == BodyIsPresent(requestBody)
      m == IF b.present THEN Marshal(requestBody) ELSE [err |-> Nil, data |-> Nil]
      url == IF Cardinality(DOMAIN queryParams) > 0
             THEN [u.url EXCEPT !.rawQuery = encodeQuery(queryParams, order)]
             ELSE u.url
      req == [method |-> method, url |-> url, header |-> requestHeaders(c),
              body |-> m.data]
      Fail(e) == [outcome |-> "error", err |-> e, req |-> NoRequest]
  IN CASE ctx = "nil" ->
            Fail(Wrapf("failed to create new HTTP request: ",
                       LibError("errorString", "net/http: nil Context")))
       [] ctx # "nil" /\ u.err # Nil ->
            Fail(Wrapf("failed to parse request URL: ", u.err))
       [] ctx # "nil" /\ u.err = Nil /\ b.panic ->
            [outcome |-> "panic", err |-> Nil, req |-> NoRequest]
       [] ctx # "nil" /\ u.err = Nil /\ ~b.panic /\ m.err # Nil ->
            Fail(Wrapf("failed to marshal request body: ", m.err))
       [] ctx # "nil" /\ u.err = Nil /\ ~b.panic /\ m.err = Nil
            /\ c.httpClient = "nil" ->
            [outcome |-> "panic", err |-> Nil, req |-> req]
       [] OTHER -> [outcome |-> "send", err |-> Nil, req |-> req]

\* requestImpl, lines 107..145: the outcome is "panic", "error" (the pipeline
\* returns nil and err) or "send" (req is handed to the transport); order is
\* the order in which the range loop visits the keys of queryParams
RequestSteps(c, ctx, method, urlStr, queryParams, requestBody, version, order) ==
  LET u == requestURL(c, version, urlStr)
      b == BodyIsPresent(requestBody)
      m == IF b.present THEN Marshal(requestBody) ELSE [err |-> Nil, data |-> Nil]
      url == IF Cardinality(DOMAIN queryParams) > 0
             THEN [u.url EXCEPT !.rawQuery = encodeQuery(queryParams, order)]
             ELSE u.url
      req == [method |-> method, url |-> url, header |-> requestHeaders(c),
              body |-> m.data]
      Fail(e) == [outcome |-> "error", err |-> e, req |-> NoRequest]
  IN CASE u.err # Nil -> Fail(Wrapf("failed to parse request URL: ", u.err))
       [] u.err = Nil /\ b.panic ->
            [outcome |-> "panic", err |-> Nil, req |-> NoRequest]
       [] u.err = Nil /\ ~b.panic /\ m.err # Nil ->
            Fail(Wrapf("failed to marshal request body: ", m.err))
       [] u.err = Nil /\ ~b.panic /\ m.err = Nil /\ ctx = "nil" ->
            Fail(Wrapf("failed to create new HTTP request: ",
                       LibError("errorString", "net/http: nil Context")))
       [] u.err = Nil /\ ~b.panic /\ m.err = Nil /\ ctx # "nil"
            /\ c.httpClient = "nil" ->
            [outcome |-> "panic", err |-> Nil, req |-> req]
       [] OTHER -> [outcome |-> "send", err |-> Nil, req |-> req]

\* what the transport gives back: an error, or a response with a status and
\* a body stream
TransportError ==
  [kind |-> "urlError", msg |-> "dial tcp: connection refused",
   cause |-> LibError("opError", "connection refused")]

Statuses == {199, 200, 204, 299, 300, 400}

Bodies ==
  {JObject(("code" :> Num(40001) @@ "detail" :> Str("bad request"))),
   JObject(("code" :> Str("E1") @@ "detail" :> Str("bad request"))),
   JObject(("id" :> Str("bot-1"))),
   JObject(("count" :> Num(2) @@ "results" :> Arr(2))),
   JObject(NoFields), JArray(1), JNullBytes, NoBytes, Garbage, BrokenStream}

NoResponse == [status |-> 0, body |-> NoBytes]

TransportOutcomes ==
  {[err |-> TransportError, res |-> NoResponse]}
    \cup {[err |-> Nil, res |-> [status |-> st, body |-> b]] :
            st \in Statuses, b \in Bodies}

\* no return of the pipeline yet: read and decoded say whether the pipeline
\* has read the response body and whether it has invoked the error decoder
NoPipeline ==
  [returned |-> FALSE, res |-> FALSE, err |-> Nil, closed |-> FALSE,
   read |-> FALSE, decoded |-> FALSE]

\* the pipeline returns nil and err before it hands anything to the transport
EarlyReturn(err) == [NoPipeline EXCEPT !.returned = TRUE, !.err = err]

\* a variant of requestImpl that takes 200 for a failure status
ResponseStepsAbove200(o, errDecoder) ==
  IF o.err # Nil
  THEN EarlyReturn(Wrapf("HTTP request failed: ", o.err))
  ELSE IF o.res.status <= 200 \/ o.res.status >= 300
  THEN LET r == ReadAll(o.res.body)
       IN IF r.err # Nil
          THEN [EarlyReturn(Wrapf("failed to read error response body: ", r.err))
                  EXCEPT !.read = TRUE]
          ELSE [EarlyReturn(errDecoder[r.data])
                  EXCEPT !.read = TRUE, !.decoded = TRUE]
  ELSE [NoPipeline EXCEPT !.returned = TRUE, !.res = TRUE]

\* requestImpl, lines 145..160, given the outcome o of httpClient.Do:
\* what the pipeline returns (res is TRUE for the response, FALSE for nil),
\* whether it has read the body and invoked the error decoder, and whether
\* it has closed the body; requestImpl never calls Body.Close.
\* errDecoder is the injected decoder, a function of the bytes read
ResponseSteps(o, errDecoder) ==
  IF o.err # Nil
  THEN EarlyReturn(Wrapf("HTTP request failed: ", o.err))
  ELSE IF o.res.status < 200 \/ o.res.status >= 300
  THEN LET r == ReadAll(o.res.body)
       IN IF r.err # Nil
          THEN [EarlyReturn(Wrapf("failed to read error response body: ", r.err))
                  EXCEPT !.read = TRUE]
          ELSE [EarlyReturn(errDecoder[r.data])
                  EXCEPT !.read = TRUE, !.decoded = TRUE]
  ELSE [NoPipeline EXCEPT !.returned = TRUE, !.res = TRUE]

\* Client.request: requestImpl with decodeClientError as the error decoder
requestResponse(o) ==
  ResponseSteps(o, [data \in Bodies |-> decodeClientError(data)])

(***************************************************************************)
(* The operation wrappers (bot.go).  WrapperCall is a wrapper up to the    *)
(* point where the pipeline hands the request to the transport;            *)
(* WrapperReturn is the wrapper from the pipeline's return.                *)
(***************************************************************************)
\* a variant of Validate that checks the meeting URL alone
ValidateURLOnly(r) ==
  IF r.kind = "nilptr" THEN [panic |-> TRUE, err |-> Nil]
  ELSE IF r.fields["meeting_url"].v = ""
  THEN [panic |-> FALSE, err |-> Errorf("meeting URL is required")]
  ELSE [panic |-> FALSE, err |-> Nil]

\* CreateBotRequest.Validate(): a nil receiver is dereferenced
Validate(r) ==
  IF r.kind = "nilptr" THEN [panic |-> TRUE, err |-> Nil]
  ELSE IF r.fields["meeting_url"].v = ""
  THEN [panic |-> FALSE, err |-> Errorf("meeting URL is required")]
  ELSE IF r.fields["bot_name"].v = ""
  THEN [panic |-> FALSE, err |-> Errorf("bot name is required")]
  ELSE [panic |-> FALSE, err |-> Nil]

\* the wrappers that validate their request before anything else
Validates(op) == op.name = "CreateBot"

NoReturn == [val |-> Nil, err |-> Nil]

\* a wrapper from its entry to httpClient.Do
WrapperCall(c, op, args, order) ==
  LET v == IF Validates(op) THEN Validate(args.request)
           ELSE [panic |-> FALSE, err |-> Nil]
      r == RequestSteps(c, args.ctx, op.method, PathOf(op, args.botID),
                        QueryOf(op, args.params), args.request, op.version,
                        order)
  IN IF v.panic
     THEN [outcome |-> "panic", ret |-> NoReturn, req |-> NoRequest,
           pipe |-> NoPipeline]
     ELSE IF v.err # Nil
     THEN [outcome |-> "return",
           ret |-> [val |-> Nil, err |-> Wrapf("invalid request: ", v.err)],
           req |-> NoRequest, pipe |-> NoPipeline]
     ELSE IF r.outcome = "error"
     THEN [outcome |-> "return",
           ret |-> [val |-> Nil, err |-> Wrapf(op.failed, r.err)],
           req |-> NoRequest,
           pipe |-> EarlyReturn(r.err)]
     ELSE [outcome |-> r.outcome, ret |-> NoReturn, req |-> r.req,
           pipe |-> NoPipeline]

\* a variant of the wrappers that closes the body at the end of the happy
\* path in place of the defer
WrapperReturnLateClose(op, o, r) ==
  IF r.err # Nil
  THEN [ret |-> [val |-> Nil, err |-> Wrapf(op.failed, r.err)],
        closed |-> r.closed]
  ELSE IF op.check # "none" /\ o.res.status # CheckedStatus(op)
  THEN [ret |-> [val |-> Nil,
                 err |-> Errorf("unexpected status code: " \o Itoa(o.res.status))],
        closed |-> FALSE]
  ELSE IF op.decode = "none"
  THEN [ret |-> [val |-> Nil, err |-> Nil], closed |-> TRUE]
  ELSE LET d == Decode(o.res.body, op.decode)
       IN IF d.err # Nil
          THEN [ret |-> [val |-> Nil,
                         err |-> Wrapf("failed to decode response: ", d.err)],
                closed |-> FALSE]
          ELSE [ret |-> [val |-> [type |-> op.decode, value |-> d.val],
                         err |-> Nil],
                closed |-> TRUE]

\* a variant of the wrappers that returns the declared result without
\* decoding the body into it
WrapperReturnUndecoded(op, o, r) ==
  IF r.err # Nil
  THEN [ret |-> [val |-> Nil, err |-> Wrapf(op.failed, r.err)],
        closed |-> r.closed]
  ELSE LET ret ==
             IF op.check # "none" /\ o.res.status # CheckedStatus(op)
             THEN [val |-> Nil,
                   err |-> Errorf("unexpected status code: " \o Itoa(o.res.status))]
             ELSE IF op.decode = "none" THEN [val |-> Nil, err |-> Nil]
             ELSE [val |-> [type |-> op.decode,
                            value |-> IF IsSliceType(op.decode) THEN Arr(0)
                                      ELSE ZeroStruct(op.decode)],
                   err |-> Nil]
       IN [ret |-> ret, closed |-> TRUE]

\* a wrapper from the return of the pipeline, r, on the transport's outcome
\* o: what it returns, and whether the body is closed when it returns
WrapperReturn(op, o, r) ==
  IF r.err # Nil
  THEN [ret |-> [val |-> Nil, err |-> Wrapf(op.failed, r.err)],
        closed |-> r.closed]
  ELSE LET d == Decode(o.res.body, op.decode)
           ret ==
             IF op.check # "none" /\ o.res.status # CheckedStatus(op)
             THEN [val |-> Nil,
                   err |-> Errorf("unexpected status code: " \o Itoa(o.res.status))]
             ELSE IF op.decode = "none" THEN [val |-> Nil, err |-> Nil]
             ELSE IF d.err # Nil
             THEN [val |-> Nil, err |-> Wrapf("failed to decode response: ", d.err)]
             ELSE [val |-> [type |-> op.decode, value |-> d.val], err |-> Nil]
       \* defer res.Body.Close()
       IN [ret |-> ret, closed |-> TRUE]

(***************************************************************************)
(* The state: the client, the frame of NewClient while it runs, and for    *)
(* each caller its call in progress: the operation and its arguments, the  *)
(* requests the transport was handed, the transport's outcome, what the    *)
(* pipeline returned to the wrapper and what the wrapper returned to the   *)
(* caller.                                                                 *)
(***************************************************************************)
NoOutcome == [err |-> Nil, res |-> NoResponse]

Idle ==
  [pc |-> "idle", op |-> "none", args |-> Nil, sent |-> <<>>,
   outcome |-> NoOutcome, pipe |-> NoPipeline, ret |-> NoReturn, closed |-> FALSE]

\* NewClient in its loop over opts, next the index of the option it applies
\* next; token and opts are its arguments
Frame(token, opts) == [pc |-> "loop", token |-> token, opts |-> opts, next |-> 1]

\* NewClient has returned: its frame is gone
Constructed == [pc |-> "returned", opts |-> <<>>, next |-> 1]

Init ==
  /\ client \in {NewClient(t, opts) : t \in Tokens, opts \in OptionLists}
  /\ calls = [i \in Callers |-> Idle]
  /\ ctor = Constructed

\* the wrapper of op runs on args for caller i until it returns, panics, or
\* the transport holds the request
Started(i, op, args) ==
  \E order \in RangeOrders(QueryOf(op, args.params)) :
    LET w == IF client.Bot.client = "self"
             THEN WrapperCall(client, op, args, order)
             \* c.client is nil: c.client.request dereferences it
             ELSE [outcome |-> "panic", ret |-> NoReturn, req |-> NoRequest,
                   pipe |-> NoPipeline]
    IN calls' = [calls EXCEPT ![i] =
         [Idle EXCEPT !.op = op.name, !.args = args,
             !.pc = CASE w.outcome = "panic" -> "panicked"
                      [] w.outcome = "return" -> "returned"
                      [] w.outcome = "send" -> "inflight",
             !.sent = IF w.outcome = "send" THEN <<w.req>> ELSE <<>>,
             !.pipe = w.pipe, !.ret = w.ret]]

\* a variant of Begin in which the call stores its version in the client
BeginStoresVersion(i) ==
  /\ ctor.pc = "returned" /\ ~client.panicked
  /\ \A j \in DOMAIN calls : calls[j].pc = "idle"
  /\ \E op \in BotService : \E args \in ArgsOf(op) :
       /\ Started(i, op, args)
       /\ client' = [client EXCEPT !.apiVersion = op.version]
  /\ UNCHANGED ctor

\* caller i calls an operation
Begin(i) ==
  /\ ctor.pc = "returned" /\ ~client.panicked
  /\ \A j \in DOMAIN calls : calls[j].pc = "idle"
  /\ \E op \in BotService : \E args \in ArgsOf(op) : Started(i, op, args)
  /\ UNCHANGED <<client, ctor>>

\* a variant of the pipeline that hands the request to the transport a
\* second time when the first attempt fails
AnsweredWithRetry(i, outcomes) ==
  \E o \in outcomes :
    LET op == OpNamed(calls[i].op)
        r == requestResponse(o)
        w == WrapperReturn(op, o, r)
    IN IF o.err # Nil /\ Len(calls[i].sent) = 1
       THEN calls' = [calls EXCEPT ![i] =
              [@ EXCEPT !.sent = Append(@, calls[i].sent[1])]]
       ELSE calls' = [calls EXCEPT ![i] =
              [@ EXCEPT !.pc = "returned", !.outcome = o, !.pipe = r,
                        !.ret = w.ret, !.closed = w.closed]]

\* the transport answers the request of caller i with one of outcomes: the
\* pipeline classifies the outcome and the wrapper returns
Answered(i, outcomes) ==
  \E o \in outcomes :
    LET op == OpNamed(calls[i].op)
        r == requestResponse(o)
        w == WrapperReturn(op, o, r)
    IN calls' = [calls EXCEPT ![i] =
         [@ EXCEPT !.pc = "returned", !.outcome = o, !.pipe = r,
                   !.ret = w.ret, !.closed = w.closed]]

Complete(i) ==
  /\ calls[i].pc = "inflight"
  /\ Answered(i, TransportOutcomes)
  /\ UNCHANGED <<client, ctor>>

\* the caller is done with the result of its call
Release(i) ==
  /\ calls[i].pc = "returned"
  /\ calls' = [calls EXCEPT ![i] = Idle]
  /\ UNCHANGED <<client, ctor>>

Next == \E i \in Callers : Begin(i) \/ Complete(i) \/ Release(i)

Spec == Init /\ [][Next]_vars

(***************************************************************************)
(* SpecNew: NewClient(token, opts...), from the state after its line 66    *)
(* (the defaults and the default region's base URL), one option per step,  *)
(* to its return.                                                          *)
(***************************************************************************)
InitNew ==
  /\ \E t \in Tokens :
       /\ client = NewClientDefaults(t)
       /\ ctor \in {Frame(t, opts) : opts \in OptionLists}
  /\ calls = [i \in Callers |-> Idle]

\* opt(client) for the next option of the loop
ApplyNext ==
  /\ ctor.pc = "loop" /\ ~client.panicked
  /\ ctor.next <= Len(ctor.opts)
  /\ client' = ApplyOption(ctor.opts[ctor.next], client)
  /\ ctor' = [ctor EXCEPT !.next = @ + 1]
  /\ UNCHANGED calls

\* return client
Return ==
  /\ ctor.pc = "loop" /\ ~client.panicked
  /\ ctor.next > Len(ctor.opts)
  /\ ctor' = Constructed
  /\ UNCHANGED <<client, calls>>

NextNew == ApplyNext \/ Return

SpecNew == InitNew /\ [][NextNew]_vars

(***************************************************************************)
(* SpecIds: the calls of Spec with bot identifiers made of dot segments.   *)
(***************************************************************************)
BeginHostile(i) ==
  /\ ctor.pc = "returned" /\ ~client.panicked
  /\ \A j \in DOMAIN calls : calls[j].pc = "idle"
  /\ \E op \in {o \in BotService : o.usesID} :
       \E a \in ArgsOf(op) : \E id \in HostileIDs :
         Started(i, op, [a EXCEPT !.botID = id])
  /\ UNCHANGED <<client, ctor>>

NextIds == \E i \in Callers : BeginHostile(i) \/ Complete(i) \/ Release(i)

SpecIds == Init /\ [][NextIds]_vars

(***************************************************************************)
(* SpecAny: SpecNew with the options a caller can write: WithRegion takes  *)
(* any Region, and Region(s) converts any string s.                        *)
(***************************************************************************)
AnyOptions == Options \cup [opt : {"WithRegion"}, arg : OtherRegions]

AnyOptionLists == UNION {[1..n -> AnyOptions] : n \in 0..MaxOpts}

InitAny ==
  /\ \E t \in Tokens :
       /\ client = NewClientDefaults(t)
       /\ ctor \in {Frame(t, opts) : opts \in AnyOptionLists}
  /\ calls = [i \in Callers |-> Idle]

SpecAny == InitAny /\ [][NextNew]_vars

(***************************************************************************)
(* SpecOpen: a constructed client in the hands of its caller, who may call *)
(* the operations, assign the exported fields Region and Token, and call  *)
(* an option function (a ClientOption takes a pointer to any Client).      *)
(***************************************************************************)
\* WithRegion(r)(client) or WithHTTPClient(h)(client), after construction
ApplyAfter ==
  /\ ctor.pc = "returned" /\ ~client.panicked
  /\ \A j \in DOMAIN calls : calls[j].pc = "idle"
  /\ \E o \in Options : client' = ApplyOption(o, client)
  /\ UNCHANGED <<calls, ctor>>

\* client.Token = t
WriteToken ==
  /\ ctor.pc = "returned" /\ ~client.panicked
  /\ \A j \in DOMAIN calls : calls[j].pc = "idle"
  /\ \E t \in Tokens : client' = [client EXCEPT !.Token = t]
  /\ UNCHANGED <<calls, ctor>>

\* client.Region = r
WriteRegion ==
  /\ ctor.pc = "returned" /\ ~client.panicked
  /\ \A j \in DOMAIN calls : calls[j].pc = "idle"
  /\ \E r \in Regions : client' = [client EXCEPT !.Region = r]
  /\ UNCHANGED <<calls, ctor>>

NextOpen == Next \/ ApplyAfter \/ WriteToken \/ WriteRegion

SpecOpen == Init /\ [][NextOpen]_vars

(***************************************************************************)
(* SpecConc: the callers of ConcCallers call operations of one client and  *)
(* their calls interleave.  A call is entered (Call), runs to the          *)
(* transport (Send), is answered (ConcComplete) and released.              *)
(***************************************************************************)
\* the operations and arguments of the interleaved calls
ConcOps == {ListBots, RetrieveBot, AnalyzeBotMedia}

ConcArgs(op) ==
  {a \in ArgsOf(op) :
     /\ a.ctx = "ctx"
     /\ op.usesID => a.botID = "bot-1"
     /\ op.reqType # "none" => a.request = ZeroRequest(op.reqType)
     /\ a.params \in {Nil, [kind |-> "ptr", JoinAtAfter |-> "", JoinAtBefore |-> "",
                            MeetingURL |-> "", Page |-> 0, Platform |-> <<>>,
                            Status |-> <<"ready", "done">>]}}

\* the answers of the transport to the interleaved calls
ConcOutcomes ==
  {o \in TransportOutcomes :
     /\ o.err = Nil
     /\ \/ o.res.status = 200 /\ o.res.body = JObject(("id" :> Str("bot-1")))
        \/ o.res.status = 400
             /\ o.res.body =
                  JObject(("code" :> Num(40001) @@ "detail" :> Str("bad request")))}

InitConc ==
  /\ client \in {NewClient(t, opts) : t \in Tokens, opts \in OptionLists}
  /\ calls = [i \in ConcCallers |-> Idle]
  /\ ctor = Constructed

\* caller i enters the wrapper of an operation
Call(i) ==
  /\ ctor.pc = "returned" /\ ~client.panicked
  /\ calls[i].pc = "idle"
  /\ \E op \in ConcOps : \E args \in ConcArgs(op) :
       calls' = [calls EXCEPT ![i] =
                   [Idle EXCEPT !.pc = "entered", !.op = op.name, !.args = args]]
  /\ UNCHANGED <<client, ctor>>

\* a variant of the pipeline that keeps the version of the call in the
\* client: Client.request stores it, requestImpl formats c.apiVersion
SendThroughClient(i) ==
  \/ /\ calls[i].pc = "entered"
     /\ client' = [client EXCEPT !.apiVersion = OpNamed(calls[i].op).version]
     /\ calls' = [calls EXCEPT ![i].pc = "stored"]
     /\ UNCHANGED ctor
  \/ /\ calls[i].pc = "stored"
     /\ Started(i, [OpNamed(calls[i].op) EXCEPT !.version = client.apiVersion],
                calls[i].args)
     /\ UNCHANGED <<client, ctor>>

\* the wrapper caller i has entered runs to the transport
Send(i) ==
  /\ calls[i].pc = "entered"
  /\ Started(i, OpNamed(calls[i].op), calls[i].args)
  /\ UNCHANGED <<client, ctor>>

ConcComplete(i) ==
  /\ calls[i].pc = "inflight"
  /\ Answered(i, ConcOutcomes)
  /\ UNCHANGED <<client, ctor>>

NextConc ==
  \E i \in ConcCallers : Call(i) \/ Send(i) \/ ConcComplete(i) \/ Release(i)

SpecConc == InitConc /\ [][NextConc]_vars

(***************************************************************************)
(* SpecPipe: calls of the pipeline itself, Client.request, with the        *)
(* values its parameters admit: requestBody is an interface{}, so a body   *)
(* can be the nil interface, a nil or non-nil pointer, a pointer to a      *)
(* value json.Marshal rejects, or a struct or string passed by value.      *)
(***************************************************************************)
RequestBodies ==
  {Nil, NilPtr("CreateBotRequest"), CreateBotRequest("https://test.com", "Test Bot"),
   Ptr("chan", NoFields),
   [kind |-> "struct", type |-> "CreateBotRequest", fields |-> NoFields],
   [kind |-> "string", type |-> "string", fields |-> NoFields]}

RequestArgs ==
  [ctx : Contexts, method : {"POST"},
   urlStr : {<<"bot">>, <<"bot/", "%zz", "">>},
   queryParams : {NoQuery, "page" :> <<"2">>},
   requestBody : RequestBodies]

\* caller i calls Client.request, which runs to httpClient.Do
Request(i) ==
  /\ ctor.pc = "returned" /\ ~client.panicked
  /\ \A j \in DOMAIN calls : calls[j].pc = "idle"
  /\ \E a \in RequestArgs : \E order \in RangeOrders(a.queryParams) :
       LET r == RequestSteps(client, a.ctx, a.method, a.urlStr, a.queryParams,
                             a.requestBody, apiVersionV1, order)
       IN calls' = [calls EXCEPT ![i] =
            [Idle EXCEPT !.op = "request", !.args = a,
                !.pc = CASE r.outcome = "panic" -> "panicked"
                         [] r.outcome = "error" -> "returned"
                         [] r.outcome = "send" -> "inflight",
                !.sent = IF r.outcome = "send" THEN <<r.req>> ELSE <<>>,
                !.pipe = IF r.outcome = "error" THEN EarlyReturn(r.err)
                         ELSE NoPipeline,
                !.ret = [val |-> Nil, err |-> r.err]]]
  /\ UNCHANGED <<client, ctor>>

\* the transport answers: Client.request classifies the outcome and returns
\* the response or the error
RequestReturn(i) ==
  /\ calls[i].pc = "inflight"
  /\ \E o \in TransportOutcomes :
       LET r == requestResponse(o)
       IN calls' = [calls EXCEPT ![i] =
            [@ EXCEPT !.pc = "returned", !.outcome = o, !.pipe = r,
                      !.ret = [val |-> IF r.res THEN o.res ELSE Nil,
                               err |-> r.err],
                      !.closed = r.closed]]
  /\ UNCHANGED <<client, ctor>>

NextPipe == \E i \in Callers : Request(i) \/ RequestReturn(i) \/ Release(i)

SpecPipe == Init /\ [][NextPipe]_vars

(***************************************************************************)
(* Properties.                                                             *)
(***************************************************************************)
\* the call of caller i has returned to its caller
Returned(i) == calls[i].pc = "returned"

\* the transport answered the call of caller i with a response
GotResponse(i) == Returned(i) /\ Len(calls[i].sent) = 1 /\ calls[i].outcome.err = Nil

StatusOf(i) == calls[i].outcome.res.status
BodyOf(i) == calls[i].outcome.res.body

Is2xx(st) == st >= 200 /\ st < 300

ErrorJSON == JObject(("code" :> Num(40001) @@ "detail" :> Str("bad request")))

\* C1: whenever the transport returned a response whose status is outside
\* [200,300), the response's body has been closed by the time the pipeline
\* (and so the call) has returned, whether or not the error body could be read.
C1_ErrorBodyClosed ==
  \A i \in Callers :
    (GotResponse(i) /\ ~Is2xx(StatusOf(i))) => calls[i].closed

\* C2: every return of the pipeline sets exactly one of its two results:
\* the response with a nil error, or a nil response with a non-nil error.
C2_ExactlyOneResult ==
  \A i \in Callers :
    calls[i].pipe.returned =>
      \/ calls[i].pipe.res /\ calls[i].pipe.err = Nil
      \/ ~calls[i].pipe.res /\ calls[i].pipe.err # Nil

\* a pipeline returned on an error response whose body does not decode
C2_Witness ==
  \E i \in Callers :
    /\ calls[i].pipe.returned /\ GotResponse(i)
    /\ StatusOf(i) = 400 /\ BodyOf(i) = Garbage
    /\ ~calls[i].pipe.res /\ calls[i].pipe.err # Nil

\* C3 as stated: on status 400 with the body {"code": 40001, "detail":
\* "bad request"} the operation returns no success value and an error whose
\* message is exactly "bad request".
C3_MessageIsDetail ==
  \A i \in Callers :
    (GotResponse(i) /\ StatusOf(i) = 400 /\ BodyOf(i) = ErrorJSON) =>
      /\ calls[i].ret.val = Nil
      /\ calls[i].ret.err # Nil
      /\ ErrorMessage(calls[i].ret.err) = "bad request"

\* C3 as amended: on status 400 with that body, every operation whose
\* request reached the transport returns no success value and an error that
\* wraps the API error {40001, "bad request"}; its message is the operation's
\* context followed by "bad request".
C3_MessageWrapsDetail ==
  \A i \in Callers :
    (GotResponse(i) /\ StatusOf(i) = 400 /\ BodyOf(i) = ErrorJSON) =>
      /\ calls[i].ret.val = Nil
      /\ calls[i].ret.err # Nil
      /\ ErrorMessage(calls[i].ret.err)
           = OpNamed(calls[i].op).failed \o "bad request"
      /\ ApiError(40001, "bad request") \in ErrorChain(calls[i].ret.err)

C3_Witness ==
  \E i \in Callers :
    /\ GotResponse(i) /\ StatusOf(i) = 400 /\ BodyOf(i) = ErrorJSON
    /\ calls[i].op = "ListBots"
    /\ ErrorMessage(calls[i].ret.err) = "failed to list bots: bad request"

\* the bytes carry the structured error shape {code, detail}
CarriesErrorShape(b) ==
  b.form = "object" /\ {"code", "detail"} \subseteq DOMAIN b.fields

\* C4: for an error body that was read and does not carry the shape
\* {code, detail}, the error decoder's result is not an API error (and so
\* never the API error with code 0 and an empty detail).
C4_NoSilentZeroError ==
  \A i \in Callers :
    (GotResponse(i) /\ ~Is2xx(StatusOf(i)) /\ BodyOf(i).form # "ioerror"
       /\ ~CarriesErrorShape(BodyOf(i))) =>
      ~IsApiError(calls[i].pipe.err)

\* the request handed to the transport by the call of caller i
RequestOf(i) == calls[i].sent[1]

HeaderCount(req, key) ==
  IF key \in DOMAIN req.header THEN Len(req.header[key]) ELSE 0

\* C5 as stated: every request carries exactly one Authorization header,
\* "Token " and the credential, exactly one Content-Type header when it has
\* a body, and no Content-Type header when it has none.
C5_ContentTypeOnlyWithBody ==
  \A i \in Callers :
    Len(calls[i].sent) = 1 =>
      /\ RequestOf(i).header["Authorization"] = <<"Token " \o client.Token>>
      /\ RequestOf(i).body # Nil => HeaderCount(RequestOf(i), "Content-Type") = 1
      /\ RequestOf(i).body = Nil => HeaderCount(RequestOf(i), "Content-Type") = 0

\* C5 as amended: every request carries exactly one Authorization header,
\* "Token " and the credential, and exactly one Content-Type header,
\* application/json, whether or not it has a body.
C5_HeadersOnEveryRequest ==
  \A i \in Callers :
    Len(calls[i].sent) = 1 =>
      /\ DOMAIN RequestOf(i).header = {"Authorization", "Content-Type"}
      /\ RequestOf(i).header["Authorization"] = <<"Token " \o client.Token>>
      /\ RequestOf(i).header["Content-Type"] = <<"application/json">>

\* a request without a body has been handed to the transport, with the
\* second credential of the model in its Authorization header
C5_Witness ==
  \E i \in Callers :
    /\ Len(calls[i].sent) = 1
    /\ calls[i].op = "DeleteScheduledBot"
    /\ RequestOf(i).body = Nil
    /\ client.Token = "other_token"
    /\ RequestOf(i).header["Authorization"] = <<"Token other_token">>

\* the CreateBot request of caller i has an empty required field
EmptyRequiredField(i) ==
  /\ calls[i].op = "CreateBot"
  /\ calls[i].args.request.kind = "ptr"
  /\ \/ calls[i].args.request.fields["meeting_url"].v = ""
     \/ calls[i].args.request.fields["bot_name"].v = ""

C7_EmptyIdentifierRejected ==
  \A i \in Callers :
    (calls[i].pc \in {"inflight", "returned"} /\ OpNamed(calls[i].op).usesID
       /\ calls[i].args.botID = "") =>
      /\ calls[i].sent = <<>>
      /\ calls[i].ret.err # Nil

\* C8: with a transport configured, no call of an operation panics, whatever
\* its arguments.
C8_NoPanic ==
  client.httpClient # "nil" => \A i \in Callers : calls[i].pc # "panicked"

\* the delete-style operations, which return an error alone
DeleteStyle ==
  {"DeleteScheduledBot", "DeleteBotMedia", "StopOutputAudio", "StopOutputMedia",
   "StopScreenshare", "StopOutputVideo"}

\* C9: a delete-style operation whose response the pipeline passed on (a
\* 2xx status) returns the nil error when the status is 204, and the
\* unexpected-status error when it is any other.
C9_DeleteStyleStatus ==
  \A i \in Callers :
    (GotResponse(i) /\ Is2xx(StatusOf(i)) /\ calls[i].op \in DeleteStyle) =>
      /\ StatusOf(i) = 204 => calls[i].ret.err = Nil
      /\ StatusOf(i) # 204 =>
           calls[i].ret.err = Errorf("unexpected status code: " \o Itoa(StatusOf(i)))

\* C10: after an operation that received a 2xx response has returned, the
\* body of that response is closed, whichever way the wrapper returned.
C10_SuccessBodyClosed ==
  \A i \in Callers :
    (GotResponse(i) /\ Is2xx(StatusOf(i))) => calls[i].closed

\* a wrapper returned an unexpected-status error on a 2xx response
C10_Witness ==
  \E i \in Callers :
    /\ GotResponse(i) /\ StatusOf(i) = 204
    /\ calls[i].op = "GetBotLogs"
    /\ calls[i].ret.err = Errorf("unexpected status code: 204")
    /\ calls[i].closed

\* C11: when the transport answers with a status in [200,300) the pipeline
\* returns that response and the nil error, having neither read nor closed
\* its body nor invoked the error decoder; over all returned calls the error
\* decoder has been invoked exactly when the transport answered with a
\* status outside [200,300) and the body was read without error.
C11_SuccessUntouchedDecoderOnFailure ==
  \A i \in Callers :
    Returned(i) =>
      /\ (GotResponse(i) /\ Is2xx(StatusOf(i))) =>
            /\ calls[i].pipe.res /\ calls[i].pipe.err = Nil
            /\ ~calls[i].pipe.read /\ ~calls[i].pipe.closed
            /\ ~calls[i].pipe.decoded
      /\ calls[i].pipe.decoded <=>
            /\ GotResponse(i) /\ ~Is2xx(StatusOf(i))
            /\ ReadAll(BodyOf(i)).err = Nil

\* a 2xx response whose body has the error shape is passed on untouched
C11_Witness ==
  \E i \in Callers :
    /\ GotResponse(i) /\ StatusOf(i) = 299 /\ BodyOf(i) = ErrorJSON
    /\ calls[i].pipe.res /\ ~calls[i].pipe.read /\ ~calls[i].pipe.decoded

\* the read-only operations: those that send GET
ReadOnly == {op.name : op \in {o \in BotService : o.method = "GET"}}

\* C12: the request a read-only operation hands to the transport is the
\* request every invocation with the same client, operation and
\* arguments hands to it, in whatever order the loop over the query map
\* visits its keys: the same method, URL (query keys and repeated values in
\* the same order), headers and body.
C12_SameArgumentsSameRequest ==
  \A i \in Callers :
    (calls[i].pc = "inflight" /\ calls[i].op \in ReadOnly) =>
      LET op == OpNamed(calls[i].op)
      IN \A order \in RangeOrders(QueryOf(op, calls[i].args.params)) :
           LET w == WrapperCall(client, op, calls[i].args, order)
           IN w.outcome = "send" /\ w.req = calls[i].sent[1]

\* ListBots with three query keys, one of them repeated, is in flight
C12_Witness ==
  \E i \in Callers :
    /\ calls[i].pc = "inflight" /\ calls[i].op = "ListBots"
    /\ calls[i].args.params # Nil
    /\ calls[i].args.params.Status = <<"ready", "done">>
    /\ calls[i].args.params.Page = 2
    /\ calls[i].args.params.MeetingURL = "https://test.com"
    /\ Cardinality(RangeOrders(QueryOf(ListBots, calls[i].args.params))) >= 6
    /\ calls[i].sent[1].url.rawQuery =
         <<(<<"meeting_url", "https://test.com">>), (<<"page", "2">>),
           (<<"status", "ready">>), (<<"status", "done">>)>>

\* the pairs of the query q whose key is key, in the order they stand in q
PairsOf(q, key) == SelectSeq(q, LAMBDA p : p[1] = key)

\* one pair of key for each of the values, in the order of the values
Repeated(key, values) == [j \in 1..Len(values) |-> <<key, values[j]>>]

\* C13: the query of a ListBots request holds, for the status filter and
\* for the platform filter, exactly one key=value pair per value given, in
\* the order given (k values make k pairs, never one comma-joined pair);
\* and a request of any operation whose parameter map is empty or nil has
\* no query string in its URL.
C13_RepeatedPairsNoEmptyQuery ==
  \A i \in Callers :
    Len(calls[i].sent) = 1 =>
      LET op == OpNamed(calls[i].op)
          params == calls[i].args.params
          u == calls[i].sent[1].url
      IN /\ (op.name = "ListBots" /\ params # Nil) =>
              /\ PairsOf(u.rawQuery, "status") = Repeated("status", params.Status)
              /\ PairsOf(u.rawQuery, "platform") =
                   Repeated("platform", params.Platform)
         /\ QueryOf(op, params) = NoQuery =>
              /\ u.rawQuery = <<>>
              /\ URLString(u) = u.scheme \o "://" \o u.host \o u.path

\* ListBots with two status values in flight: two status pairs, in order
C13_Witness ==
  \E i \in Callers :
    /\ calls[i].pc = "inflight" /\ calls[i].op = "ListBots"
    /\ calls[i].args.params # Nil
    /\ calls[i].args.params.Status = <<"ready", "done">>
    /\ PairsOf(calls[i].sent[1].url.rawQuery, "status") =
         <<(<<"status", "ready">>), (<<"status", "done">>)>>
    /\ URLString(calls[i].sent[1].url) =
         "https://us-east-1.recall.ai/api/v1/bot?status=ready&status=done"

\* C14: a request built from a nil body or a nil pointer has no body bytes,
\* and a request built from a non-nil pointer has the JSON object of the
\* struct as its body, also when every field holds its zero value: absent
\* and present-but-empty never yield the same body.
C14_AbsentBodyVsEmptyBody ==
  \A i \in Callers :
    Len(calls[i].sent) = 1 =>
      LET b == calls[i].args.request
          body == calls[i].sent[1].body
      IN /\ b.kind \in {"nil", "nilptr"} => body = Nil
         /\ b.kind = "ptr" =>
              /\ body # Nil /\ body # NoBytes
              /\ body.form = "object"
              /\ \A k \in DOMAIN body.fields : body.fields[k] = b.fields[k]

\* OutputAudio with a pointer to the zero request: the body is the object
\* with its two empty members
C14_Witness ==
  \E i \in Callers :
    /\ calls[i].pc = "inflight" /\ calls[i].op = "OutputAudio"
    /\ calls[i].args.request = ZeroRequest("OutputAudioRequest")
    /\ calls[i].sent[1].body =
         JObject(("kind" :> Str("") @@ "b64_data" :> Str("")))

C16_ConfigNeverChanges ==
  [][ctor.pc = "returned" => client' = client]_vars

\* C17: no step of an operation call (the wrapper up to the transport, the
\* pipeline and the wrapper from the transport's answer, the release of the
\* result) changes any field of the client: transport, token, region, base
\* URL and API version are after the step what they were before it.
C17_CallsWriteNoField ==
  [][(\E i \in Callers : calls'[i] # calls[i]) =>
       /\ client'.httpClient = client.httpClient
       /\ client'.Token = client.Token
       /\ client'.Region = client.Region
       /\ client'.baseUrl = client.baseUrl
       /\ client'.apiVersion = client.apiVersion]_vars

\* a call that went to the transport has returned an error, and the client
\* is still a client as NewClient returns it
C17_Witness ==
  \E i \in Callers :
    /\ Returned(i) /\ Len(calls[i].sent) = 1 /\ calls[i].ret.err # Nil
    /\ calls[i].op = "AnalyzeBotMedia"
    /\ client \in {NewClient(t, opts) : t \in Tokens, opts \in OptionLists}

\* C18: however the calls of the callers interleave, the request each call
\* has handed to the transport is the request that operation builds from
\* this client and the call's own arguments, and what a call returned is
\* what that operation returns on the answer the call itself received:
\* the same as when the call runs alone.
C18_CallsDoNotInterfere ==
  \A i \in DOMAIN calls :
    Len(calls[i].sent) = 1 =>
      LET op == OpNamed(calls[i].op)
      IN /\ \A order \in RangeOrders(QueryOf(op, calls[i].args.params)) :
              WrapperCall(client, op, calls[i].args, order).req = calls[i].sent[1]
         /\ calls[i].pc = "returned" =>
              /\ calls[i].pipe = requestResponse(calls[i].outcome)
              /\ calls[i].ret =
                   WrapperReturn(op, calls[i].outcome, calls[i].pipe).ret

\* AnalyzeBotMedia of one caller is in flight while ListBots of another,
\* sent after it, has returned: each went to its own URL
C18_Witness ==
  /\ calls[1].pc = "inflight" /\ calls[1].op = "AnalyzeBotMedia"
  /\ calls[2].pc = "returned" /\ calls[2].op = "ListBots"
  /\ Len(calls[2].sent) = 1 /\ calls[2].outcome.res.status = 200
  /\ calls[2].ret.err = Nil
  /\ client.Region = Eu
  /\ URLString(calls[1].sent[1].url) =
       "https://eu-central-1.recall.ai/api/" \o apiVersionV2Beta
         \o "/bot/bot-1/analyze"
  /\ URLString(calls[2].sent[1].url) =
       "https://eu-central-1.recall.ai/api/v1/bot?status=ready&status=done"

\* the argument of the last option of the given kind in opts, or default
LastArg(opts, kind, default) ==
  LET idx == {k \in 1..Len(opts) : opts[k].opt = kind}
  IN IF idx = {} THEN default
     ELSE opts[CHOOSE k \in idx : \A j \in idx : j <= k].arg

\* C19: while NewClient runs its loop, after each option the client's
\* region and transport are those of the last WithRegion and the last
\* WithHTTPClient among the options applied so far, in the order given (the
\* defaults where there is none); and then as after its return the base
\* address is the address of the client's Region and a valid absolute URL.
C19_LastOptionWins ==
  ~client.panicked =>
    /\ ctor.pc = "loop" =>
         LET applied == SubSeq(ctor.opts, 1, ctor.next - 1)
         IN /\ client.Region = LastArg(applied, "WithRegion", UsEast)
            /\ client.httpClient =
                 LastArg(applied, "WithHTTPClient", "DefaultClient")
    /\ URLString(client.baseUrl) = BaseURL(client.Region)
    /\ urlParse(URLString(client.baseUrl)).err = Nil
    /\ client.baseUrl.scheme = "https" /\ client.baseUrl.host # ""

\* NewClient(token, WithRegion(Eu), WithRegion(Japan)) at its return
C19_Witness ==
  /\ ctor.pc = "loop" /\ ctor.next = 3
  /\ ctor.opts = <<[opt |-> "WithRegion", arg |-> Eu],
                   [opt |-> "WithRegion", arg |-> Japan]>>
  /\ client.Region = Japan
  /\ URLString(client.baseUrl) = "https://ap-northeast-1.recall.ai"

\* C20: BaseURL of each of the four regions is https://{region}.recall.ai,
\* a non-empty string that parses to an absolute URL (scheme https, host
\* {region}.recall.ai); two different regions have different addresses;
\* and the base URL NewClient and WithRegion store is the parsed address of
\* the client's region.
C20_RegionAddresses ==
  /\ BaseURL(UsEast) = "https://us-east-1.recall.ai"
  /\ BaseURL(UsWest) = "https://us-west-2.recall.ai"
  /\ BaseURL(Eu) = "https://eu-central-1.recall.ai"
  /\ BaseURL(Japan) = "https://ap-northeast-1.recall.ai"
  /\ \A r \in Regions :
       LET p == urlParse(BaseURL(r))
       IN /\ BaseURL(r) # "" /\ p.err = Nil
          /\ p.url.scheme = "https" /\ p.url.host = r \o ".recall.ai"
          /\ p.url.path = "" /\ p.url.rawQuery = <<>>
  /\ \A r1, r2 \in Regions : r1 # r2 => BaseURL(r1) # BaseURL(r2)
  /\ client.Region \in Regions
  /\ ~client.panicked => client.baseUrl = urlParse(BaseURL(client.Region)).url

\* WithRegion(UsWest) has resolved the address of us-west-2
C20_Witness ==
  /\ ctor.pc = "loop" /\ ctor.next = 2
  /\ ctor.opts[1] = [opt |-> "WithRegion", arg |-> UsWest]
  /\ client.baseUrl = URL("https", "us-west-2.recall.ai", "", <<>>)

\* C21: during and after construction the client's region is one of the
\* four enumerated regions and NewClient has not panicked, whatever list of
\* options it was given.
C21_ConstructionNeverAborts ==
  client.Region \in Regions /\ ~client.panicked

\* C22: a call hands at most one request to the transport; when the
\* transport fails, the call returns with that single request handed over,
\* no success value, and an error whose chain holds the transport's error.
C22_OneTransportInvocation ==
  \A i \in Callers :
    /\ Len(calls[i].sent) <= 1
    /\ (Returned(i) /\ calls[i].outcome.err # Nil) =>
          /\ Len(calls[i].sent) = 1
          /\ calls[i].ret.val = Nil
          /\ calls[i].ret.err # Nil
          /\ calls[i].outcome.err \in ErrorChain(calls[i].ret.err)

C22_Witness ==
  \E i \in Callers :
    /\ Returned(i)
    /\ calls[i].outcome.err = TransportError
    /\ calls[i].sent # <<>>

\* the body b is well-formed JSON of the response shape of the given type:
\* an array for a slice, and for a struct an object with at least one key,
\* declared keys only, each with a value of the declared JSON type
HasResponseShape(b, type) ==
  IF type = "none" THEN FALSE
  ELSE IF IsSliceType(type) THEN b.form = "array"
  ELSE /\ b.form = "object"
       /\ DOMAIN b.fields # {}
       /\ DOMAIN b.fields \subseteq DOMAIN StructKeys(type)
       /\ \A k \in DOMAIN b.fields : b.fields[k].t = StructKeys(type)[k]

C24_RequestStaysUnderRoot ==
  \A i \in Callers :
    calls[i].sent # <<>> =>
      LET op == OpNamed(calls[i].op)
          u == RequestOf(i).url
      IN /\ u.host = client.baseUrl.host
         /\ u.path = "/api/" \o op.version \o "/"
                       \o Join(PathOf(op, calls[i].args.botID))
         /\ (QueryOf(op, calls[i].args.params) = NoQuery => u.rawQuery = <<>>)

\* the body b is a well-formed error body: an object with a numeric code
\* and a string detail
WellFormedErrorBody(b) ==
  CarriesErrorShape(b) /\ MismatchedKeys(b, "Error") = {}

\* C25: the error a call returns has an API error in its chain exactly when
\* the transport answered with a status outside [200,300) and a well-formed
\* error body, and then it is the API error with the body's code and
\* detail; the errors of validation, URL and body encoding, transport
\* failure and decode failure have no API error in their chain.
C25_FailureKindRecoverable ==
  \A i \in Callers :
    (Returned(i) /\ calls[i].ret.err # Nil) =>
      IF GotResponse(i) /\ ~Is2xx(StatusOf(i)) /\ WellFormedErrorBody(BodyOf(i))
      THEN ApiError(BodyOf(i).fields["code"].v, BodyOf(i).fields["detail"].v)
             \in ErrorChain(calls[i].ret.err)
      ELSE ~IsApiError(calls[i].ret.err)

\* the call of caller i is a call of Client.request that got past entry
PipelineCall(i) == calls[i].op = "request" /\ calls[i].pc # "idle"

\* the relative path of the call of caller i is one url.Parse rejects
BadURL(i) == \E k \in DOMAIN calls[i].args.urlStr :
               calls[i].args.urlStr[k] \in InvalidEscapes

\* the pipeline returned the wrap of a cause under the given prefix before
\* it handed anything to the transport
FailedAt(i, prefix) ==
  /\ calls[i].pc = "returned"
  /\ calls[i].sent = <<>> /\ calls[i].outcome = NoOutcome
  /\ calls[i].pipe.err # Nil
  /\ calls[i].pipe.err.kind = "wrapError"
  /\ calls[i].pipe.err = Wrapf(prefix, calls[i].pipe.err.cause)

\* C26: the stages of a pipeline call run in the order URL construction,
\* body serialization, query encoding and request creation, header
\* attachment, transport execution, response classification.  A URL that
\* does not parse fails the call whatever the body and the context are; a
\* body that does not serialize fails it whatever the context is; a
\* request that cannot be created fails it whatever the transport is; each
\* of these failures returns with nothing handed to the transport.  A
\* request handed to the transport has its query and its headers, and the
\* response is classified only after the transport was handed the request.
C26_StagesInOrder ==
  \A i \in Callers :
    PipelineCall(i) =>
      LET a == calls[i].args
          marshals == a.requestBody.kind = "ptr" /\ a.requestBody.type # "chan"
          noBody == a.requestBody.kind \in {"nil", "nilptr"}
      IN /\ BadURL(i) => FailedAt(i, "failed to parse request URL: ")
         /\ (~BadURL(i) /\ a.requestBody = Ptr("chan", NoFields)) =>
               FailedAt(i, "failed to marshal request body: ")
         /\ (~BadURL(i) /\ (marshals \/ noBody) /\ a.ctx = "nil") =>
               FailedAt(i, "failed to create new HTTP request: ")
         /\ calls[i].sent # <<>> =>
               /\ Len(calls[i].sent) = 1
               /\ ~BadURL(i) /\ (marshals \/ noBody) /\ a.ctx # "nil"
               /\ (RequestOf(i).url.rawQuery = <<>>) <=> (a.queryParams = NoQuery)
               /\ (RequestOf(i).body = Nil) <=> noBody
               /\ {"Authorization", "Content-Type"} \subseteq DOMAIN RequestOf(i).header
         /\ (calls[i].pipe.read \/ calls[i].pipe.res \/ calls[i].outcome # NoOutcome) =>
               Len(calls[i].sent) = 1

C26_Witness ==
  \E i \in Callers :
    /\ PipelineCall(i) /\ BadURL(i)
    /\ calls[i].args.ctx = "nil"
    /\ calls[i].args.requestBody = Ptr("chan", NoFields)
    /\ FailedAt(i, "failed to parse request URL: ")

\* C28: whatever value is passed as the body, a pipeline call on a client
\* with a transport does not abort: with a URL that parses and a context,
\* it hands the request to the transport or returns the serialization
\* error.
C28_BodyCheckNeverAborts ==
  \A i \in Callers :
    (PipelineCall(i) /\ client.httpClient # "nil") =>
      /\ calls[i].pc # "panicked"
      /\ (~BadURL(i) /\ calls[i].args.ctx # "nil") =>
            \/ Len(calls[i].sent) = 1
            \/ FailedAt(i, "failed to marshal request body: ")

\* the query keys of the fields that are set in the ListBots filter p
SetFields(p) ==
  IF p = Nil THEN {}
  ELSE {k \in {"join_at_after", "join_at_before", "meeting_url", "page",
                "platform", "status"} :
          CASE k = "join_at_after" -> p.JoinAtAfter # ""
            [] k = "join_at_before" -> p.JoinAtBefore # ""
            [] k = "meeting_url" -> p.MeetingURL # ""
            [] k = "page" -> p.Page # 0
            [] k = "platform" -> p.Platform # <<>>
            [] k = "status" -> p.Status # <<>>}

\* C27: the query map ListBots builds from its filter has a key exactly for
\* each field that is set, each with a non-empty list of values; a nil
\* filter gives the empty map, and the request sent has no query; the query
\* of a request sent names exactly the fields that are set.
C27_QueryKeysOnlyForSetFields ==
  \A i \in Callers :
    (calls[i].op = "ListBots" /\ calls[i].pc # "idle") =>
      LET p == calls[i].args.params
          q == QueryOf(ListBots, p)
      IN /\ DOMAIN q = SetFields(p)
         /\ \A k \in DOMAIN q : Len(q[k]) > 0
         /\ p = Nil => q = NoQuery
         /\ calls[i].sent # <<>> =>
               /\ {RequestOf(i).url.rawQuery[j][1] :
                    j \in DOMAIN RequestOf(i).url.rawQuery} = SetFields(p)
               /\ p = Nil => RequestOf(i).url.rawQuery = <<>>

C27_Witness ==
  \E i \in Callers :
    /\ calls[i].op = "ListBots" /\ calls[i].sent # <<>>
    /\ calls[i].args.params # Nil
    /\ SetFields(calls[i].args.params) = {"page", "status"}
    /\ Len(RequestOf(i).url.rawQuery) = 3

\* C29: when NewClient is called with no options, the client it returns
\* has the default transport, the region UsEast with the base address
\* https://us-east-1.recall.ai, the API version v1, the token it was given
\* and a Bot service bound to this client, and a call on it reaches the
\* transport with no further configuration.
C29_DefaultClient ==
  (ctor.pc = "loop" /\ ctor.opts = <<>>) =>
    /\ ~client.panicked
    /\ client.httpClient = "DefaultClient"
    /\ client.Region = UsEast
    /\ URLString(client.baseUrl) = "https://us-east-1.recall.ai"
    /\ client.apiVersion = "v1"
    /\ client.Token = ctor.token
    /\ client.Bot.client = "self"
    /\ LET w == WrapperCall(client, ListBots,
                            [ctx |-> "ctx", botID |-> "", request |-> Nil,
                             params |-> Nil], <<>>)
       IN /\ w.outcome = "send"
          /\ URLString(w.req.url) = "https://us-east-1.recall.ai/api/v1/bot"
          /\ w.req.header["Authorization"] = <<"Token " \o ctor.token>>

C29_Witness ==
  /\ ctor.pc = "loop" /\ ctor.opts = <<>>
  /\ ctor.token = "some_token"
  /\ client.Token = "some_token"
  /\ client.httpClient = "DefaultClient"
  /\ client.Bot.client = "self"

\* C30: once NewClient has returned, the client's transport is not nil, and
\* no call aborts at httpClient.Do (a call that has panicked is a CreateBot
\* that dereferenced its nil request).
C30_TransportNeverNil ==
  ctor.pc = "returned" =>
    /\ client.httpClient # "nil"
    /\ \A i \in Callers :
         calls[i].pc = "panicked" =>
           calls[i].op = "CreateBot" /\ calls[i].args.request.kind = "nilptr"

====
